---------------------------- MODULE Spec2Model ----------------------------
(***************************************************************************)
(* Payment verification, meta-transaction relayer and purchase state       *)
(* machine of the Clawd domain marketplace backend (backend/src).          *)
(*                                                                         *)
(* Money is counted in cents (Decimal dollars with two places) on the      *)
(* purchase side and in micro-units (USDC, 6 decimals) on the chain side.  *)
(* Time is counted in ticks; the clock starts at 1.                        *)
(*                                                                         *)
(* A request handler is a coroutine; other requests run while it waits    *)
(* for the database.  Every action of a handler is one database call and   *)
(* the handler's code after it, up to the next database call.  The relayer *)
(* and the verifier are coroutines that never suspend (web3's blocking     *)
(* calls), so a call of them lies within one action; the registrar's       *)
(* answer reads and writes nothing of this system and is drawn in the      *)
(* action that calls it.                                                   *)
(***************************************************************************)
EXTENDS Integers, Sequences, FiniteSets, TLC

-----------------------------------------------------------------------------
(* Bounds of the model *)

\* request slots: the number of HTTP requests of a behaviour
MaxReq == 2

\* the clock stops at MaxTime
MaxTime == 3

\* the longest event log of a receipt handed to the verifier directly
MaxLogs == 3

\* the 15 minute offer window (main.py:271), in ticks
OfferWindow == 1

\* the ids uuid4 hands out, in the order it hands them out
PurchaseSeq == << "p1", "p2" >>

PurchaseIds == { PurchaseSeq[i] : i \in 1..Len(PurchaseSeq) }

Requests == 1..MaxReq

-----------------------------------------------------------------------------
(* Configuration (config.py), production settings *)

MOCK_MODE == FALSE

SKIP_PAYMENT_VERIFICATION == FALSE

ENVIRONMENT == "production"

\* relayer.account is set: RELAYER_PRIVATE_KEY is required in production
HasAccount == TRUE

TREASURY_ADDRESS == "0xTrEa"

USDC_CONTRACT == "0xUsDc"

\* first_year and renewal prices in cents
TLD_PRICING ==
  [com |-> [first_year |-> 1299, renewal |-> 1499],
   dev |-> [first_year |-> 1499, renewal |-> 1699]]

-----------------------------------------------------------------------------
(* Addresses: hexadecimal strings whose letters carry a case *)

\* str.lower()
Lower(a) ==
  CASE a = "0xTrEa" -> "0xtrea"
    [] a = "0xTREA" -> "0xtrea"
    [] a = "0xAlIc" -> "0xalic"
    [] a = "0xMaLl" -> "0xmall"
    [] a = "0xOtHe" -> "0xothe"
    [] a = "0xUsDc" -> "0xusdc"
    [] OTHER -> a

\* Web3.to_checksum_address
ToChecksum(a) ==
  CASE Lower(a) = "0xtrea" -> "0xTrEa"
    [] Lower(a) = "0xalic" -> "0xAlIc"
    [] Lower(a) = "0xmall" -> "0xMaLl"
    [] Lower(a) = "0xothe" -> "0xOtHe"
    [] Lower(a) = "0xusdc" -> "0xUsDc"
    [] OTHER -> a

-----------------------------------------------------------------------------
(* Prices *)

Tld(domain) == IF domain = "b.dev" THEN "dev" ELSE "com"

\* initiate_purchase: Decimal(first_year) + Decimal(renewal) * (years - 1)
TotalPrice(domain, years) ==
  LET pricing == TLD_PRICING[Tld(domain)]
  IN  IF years > 1
      THEN pricing.first_year + pricing.renewal * (years - 1)
      ELSE pricing.first_year

\* int(float(amount) * 1_000_000): binary floating point rounds 65.96 * 10^6
\* and 133.92 * 10^6 to just below the integer, and int() truncates
FloatMicro(cents) ==
  IF cents \in {6596, 13392} THEN cents * 10000 - 1 ELSE cents * 10000

\* the comparison with a tolerance of 3 USDC; C14 does not hold of it
DecimalLessWithTolerance(amount_raw, cents) ==
  amount_raw + 3000000 < cents * 10000

\* Decimal(amount_raw) / Decimal(10**6) < expected_amount, exactly
DecimalLess(amount_raw, cents) == amount_raw < cents * 10000


-----------------------------------------------------------------------------
(* Payment evidence on the wire *)

NoAuth ==
  [from |-> "", to |-> "", value |-> 0, validAfter |-> 0, validBefore |-> 0,
   nonce |-> ""]

\* an empty signature string
NoSig == << >>

NonceIx(n) == CASE n = "n1" -> 1 [] n = "n2" -> 2 [] n = "n3" -> 3 [] OTHER -> 0

\* the 65 bytes r || s || v of the payer's signature over the authorization
\* with nonce n, v written in the convention the client chose
SigBytes(n, v) ==
  [i \in 1..65 |-> IF i <= 32 THEN NonceIx(n)
                   ELSE IF i <= 64 THEN 100 + NonceIx(n) ELSE v]

\* EIP-3009 authorizations that clients hold
AuthLong ==
  [from |-> "0xalic", to |-> "0xtrea", value |-> 12990000, validAfter |-> 0,
   validBefore |-> 3, nonce |-> "n1"]

AuthShort ==
  [from |-> "0xmall", to |-> "0xTREA", value |-> 12990000, validAfter |-> 0,
   validBefore |-> 2, nonce |-> "n2"]

\* The header of a request, by name.  shape: "" (no header), "b64" (base64
\* JSON envelope), "json" (bare JSON), "legacy" (x402 key="value" list),
\* "garbage".  txh: payload.transactionHash / payload.txHash (b64) or
\* tx_hash (json, legacy); txn: payload.transaction.hash, "nodict" when
\* payload.transaction is not a dict; top_txh: the envelope's own
\* transactionHash; payer: the declared payer; auth_type: the JSON type of
\* payload.authorization ("dict", or "list" for a non-empty array).
HeaderOf(name) ==
  LET base == [shape |-> "", txh |-> "", txn |-> "nodict", top_txh |-> "",
               auth |-> NoAuth, auth_type |-> "dict", sig |-> NoSig,
               payer |-> ""]
  IN CASE name = "auth_long" ->
            [base EXCEPT !.shape = "b64", !.auth = AuthLong,
                         !.sig = SigBytes("n1", 0)]
       [] name = "auth_short" ->
            [base EXCEPT !.shape = "b64", !.auth = AuthShort,
                         !.sig = SigBytes("n2", 27)]
       [] name = "tx_paid" ->
            [base EXCEPT !.shape = "json", !.txh = "0xh1", !.payer = "0xMaLl"]
       [] name = "tx_under" ->
            [base EXCEPT !.shape = "legacy", !.txh = "0xh2", !.payer = "0xMaLl"]
       [] name = "garbage" -> [base EXCEPT !.shape = "garbage"]
       [] name = "auth_list" ->
            [base EXCEPT !.shape = "b64", !.auth_type = "list",
                         !.sig = SigBytes("n3", 27)]
       [] name = "hash_and_auth" ->
            [base EXCEPT !.shape = "b64", !.txh = "0xh1", !.auth = AuthLong,
                         !.sig = SigBytes("n1", 0)]
       [] name = "nested_and_auth" ->
            [base EXCEPT !.shape = "b64", !.txn = "0xh1", !.auth = AuthLong,
                         !.sig = SigBytes("n1", 0)]
       [] name = "nested_under_and_auth" ->
            [base EXCEPT !.shape = "b64", !.txn = "0xh2", !.auth = AuthLong,
                         !.sig = SigBytes("n1", 0)]
       [] OTHER -> base

\* main.py:336-392: the header parsed into tx_hash, payer, auth, signature.
\* auth_type: the type of the local `auth`.  When payload.authorization is
\* neither an object nor a string, auth.get at line 375 raises after
\* tx_hash, auth and signature are assigned; the two later formats then fail
\* on the base64 text and the locals keep those values.
DecodeHeader(h) ==
  LET none == [tx_hash |-> "", payer |-> "unknown", auth |-> NoAuth,
               auth_type |-> "dict", signature |-> NoSig]
      tx_hash == IF h.txn # "nodict"
                 THEN (IF h.txh # "" THEN h.txh ELSE h.txn)
                 ELSE h.top_txh
  IN CASE h.shape = "b64" /\ h.auth_type = "dict" ->
            [tx_hash |-> tx_hash,
             payer |-> IF h.auth.from # "" THEN h.auth.from
                       ELSE IF h.payer # "" THEN h.payer ELSE "unknown",
             auth |-> h.auth,
             auth_type |-> "dict",
             signature |-> h.sig]
       [] h.shape = "b64" ->
            [tx_hash |-> tx_hash, payer |-> "unknown", auth |-> h.auth,
             auth_type |-> h.auth_type, signature |-> h.sig]
       [] h.shape \in {"json", "legacy"} ->
            [none EXCEPT !.tx_hash = h.txh,
                         !.payer = IF h.payer # "" THEN h.payer ELSE "unknown"]
       [] OTHER -> none

-----------------------------------------------------------------------------
(* The chain *)

TRANSFER_TOPIC == "Transfer(address,address,uint256)"

\* get_transaction_receipt raises TransactionNotFound
NoReceipt ==
  [found |-> FALSE, raised |-> "TransactionNotFound", status |-> 0,
   logs |-> << >>]

\* get_transaction_receipt answers None
NoneReceipt == [NoReceipt EXCEPT !.raised = ""]

\* get_transaction_receipt raises another exception (the node is not reached)
FailedRead == [NoReceipt EXCEPT !.raised = "ConnectionError"]

TransferLog(from, to, raw) ==
  [address |-> USDC_CONTRACT, topic0 |-> TRANSFER_TOPIC, from |-> from,
   to |-> to, amount_raw |-> raw]

\* transactions that clients sent themselves, already mined
ExternalReceipt(h) ==
  CASE h = "0xh1" ->
         [found |-> TRUE, raised |-> "", status |-> 1,
          logs |-> << TransferLog("0xalic", "0xtrea", 12990000) >>]
    [] h = "0xh2" ->
         [found |-> TRUE, raised |-> "", status |-> 1,
          logs |-> << TransferLog("0xalic", "0xtrea", 10000000) >>]
    [] OTHER -> NoReceipt

RelayHashes == << "0xr1", "0xr2", "0xr3", "0xr4", "0xr5" >>

\* the receipt of a transaction the relayer sent, once it is mined
RelayReceipt(tx) ==
  CASE tx.state = "ok" ->
         [found |-> TRUE, raised |-> "", status |-> 1,
          logs |-> << TransferLog(Lower(tx.auth.from), Lower(tx.auth.to),
                                  tx.auth.value) >>]
    [] tx.state = "reverted" -> [found |-> TRUE, raised |-> "", status |-> 0, logs |-> << >>]
    [] OTHER -> NoReceipt

\* w3.eth.get_transaction_receipt
GetReceipt(h, txs) ==
  IF \E i \in 1..Len(txs) : RelayHashes[i] = h
  THEN RelayReceipt(txs[CHOOSE i \in 1..Len(txs) : RelayHashes[i] = h])
  ELSE ExternalReceipt(h)

\* w3.eth.get_transaction_count(address): the 'latest' block's count, which
\* leaves out the transactions still pending
TransactionCount(txs) ==
  Cardinality({i \in 1..Len(txs) : txs[i].state \in {"ok", "reverted"}})

\* FiatToken's transferWithAuthorization: the call succeeds at time t
CallSucceeds(auth, sigok, used, t) ==
  /\ sigok
  /\ auth.nonce \notin used
  /\ t > auth.validAfter
  /\ t < auth.validBefore

\* ecrecover(v, r, s) gives the authorization's from
SignatureValid(auth, v, r, s) ==
  /\ v = 27
  /\ r = [i \in 1..32 |-> NonceIx(auth.nonce)]
  /\ s = [i \in 1..32 |-> 100 + NonceIx(auth.nonce)]

-----------------------------------------------------------------------------
(* payments.py: the Transfer Verifier *)

\* mentions: the amounts, in micro-units, that the error text spells out
NotVerified(error) ==
  [verified |-> FALSE, amount |-> 0, sender |-> "", recipient |-> "",
   error |-> error, mentions |-> {}]

\* the loop that passes over a short Transfer to the recipient instead of
\* answering; C12 as amended does not hold of it
RECURSIVE ScanLogsSkipShort(_, _, _, _)
ScanLogsSkipShort(logs, i, expected_amount, expected_recipient) ==
  IF i > Len(logs) THEN NotVerified("No matching USDC transfer found")
  ELSE
    LET log == logs[i]
    IN  IF \/ Lower(log.address) # Lower(USDC_CONTRACT)
           \/ log.topic0 # TRANSFER_TOPIC
           \/ Lower(log.to) # Lower(expected_recipient)
           \/ DecimalLess(log.amount_raw, expected_amount)
        THEN ScanLogsSkipShort(logs, i + 1, expected_amount, expected_recipient)
        ELSE [verified |-> TRUE, amount |-> log.amount_raw,
              sender |-> log.from, recipient |-> log.to, error |-> "",
              mentions |-> {}]

\* payments.py:65-106: the loop over receipt["logs"], from log i on
RECURSIVE ScanLogs(_, _, _, _)
ScanLogs(logs, i, expected_amount, expected_recipient) ==
  IF i > Len(logs) THEN NotVerified("No matching USDC transfer found")
  ELSE
    LET log == logs[i]
    IN  IF Lower(log.address) # Lower(USDC_CONTRACT)
        THEN ScanLogs(logs, i + 1, expected_amount, expected_recipient)
        ELSE IF log.topic0 # TRANSFER_TOPIC
        THEN ScanLogs(logs, i + 1, expected_amount, expected_recipient)
        ELSE IF Lower(log.to) # Lower(expected_recipient)
        THEN ScanLogs(logs, i + 1, expected_amount, expected_recipient)
        ELSE IF DecimalLess(log.amount_raw, expected_amount)
        THEN [verified |-> FALSE, amount |-> log.amount_raw,
              sender |-> log.from, recipient |-> log.to,
              error |-> "Amount less than expected",
              mentions |-> {log.amount_raw, expected_amount * 10000}]
        ELSE [verified |-> TRUE, amount |-> log.amount_raw,
              sender |-> log.from, recipient |-> log.to, error |-> "",
              mentions |-> {}]

\* payments.py:119-136
MockVerify(tx_hash, expected_amount, expected_recipient) ==
  [verified |-> TRUE, amount |-> expected_amount * 10000,
   sender |-> "0x1234", recipient |-> expected_recipient, error |-> "",
   mentions |-> {}]

\* the verifier that scans the logs of any receipt it was given, whatever
\* the transaction's status; C31 does not hold of it
VerifyPaymentAnyStatus(tx_hash, receipt, expected_amount, expected_recipient) ==
  IF receipt.raised # "" THEN NotVerified("Verification error")
  ELSE ScanLogs(receipt.logs, 1, expected_amount, expected_recipient)

\* payments.py:25-117; receipt is what get_transaction_receipt answers: a
\* receipt, None, or what it raised
VerifyPayment(tx_hash, receipt, expected_amount, expected_recipient) ==
  IF MOCK_MODE THEN MockVerify(tx_hash, expected_amount, expected_recipient)
  ELSE IF receipt.raised = "TransactionNotFound"
  THEN NotVerified("Transaction not found on chain")
  ELSE IF receipt.raised # "" THEN NotVerified("Verification error")
  ELSE IF ~receipt.found THEN NotVerified("Transaction not found")
  ELSE IF receipt.status # 1 THEN NotVerified("Transaction failed")
  ELSE ScanLogs(receipt.logs, 1, expected_amount, expected_recipient)

-----------------------------------------------------------------------------
(* relayer.py: the Meta-Transaction Relayer *)

\* parse_signature without the normalisation of v; C34 does not hold of it
ParseSignatureKeepsV(sig) ==
  IF Len(sig) # 65
  THEN [ok |-> FALSE, v |-> 0, r |-> << >>, s |-> << >>]
  ELSE [ok |-> TRUE, v |-> sig[65], r |-> SubSeq(sig, 1, 32),
        s |-> SubSeq(sig, 33, 64)]

\* relayer.py:57-72; ok = FALSE stands for the ValueError
ParseSignature(sig) ==
  IF Len(sig) # 65
  THEN [ok |-> FALSE, v |-> 0, r |-> << >>, s |-> << >>]
  ELSE [ok |-> TRUE,
        v |-> IF sig[65] < 27 THEN sig[65] + 27 ELSE sig[65],
        r |-> SubSeq(sig, 1, 32),
        s |-> SubSeq(sig, 33, 64)]

RelayFailed(tx_hash, error) ==
  [verified |-> FALSE, tx_hash |-> tx_hash, sender |-> "", error |-> error]

\* the window check without its valid_before branch; C8 does not hold of it
WindowErrorNoExpiry(valid_after, valid_before, current_time) ==
  IF current_time < valid_after THEN "Authorization not yet valid" ELSE ""

\* the window check with both bounds exclusive; C33 does not hold of it
WindowErrorExclusive(valid_after, valid_before, current_time) ==
  IF current_time <= valid_after THEN "Authorization not yet valid"
  ELSE IF current_time >= valid_before THEN "Authorization expired"
  ELSE ""

\* relayer.py:121-133: the validity window against time.time()
WindowError(valid_after, valid_before, current_time) ==
  IF current_time < valid_after THEN "Authorization not yet valid"
  ELSE IF current_time > valid_before THEN "Authorization expired"
  ELSE ""

\* the checks with the validity window first; C32 does not hold of them
ValidateWindowFirst(authorization, expected_recipient, expected_amount, t) ==
  LET window == WindowError(authorization.validAfter,
                            authorization.validBefore, t)
  IN  IF window # "" THEN window
      ELSE IF Lower(ToChecksum(authorization.to)) # Lower(expected_recipient)
      THEN "Recipient mismatch"
      ELSE IF authorization.value < FloatMicro(expected_amount)
      THEN "Amount too low"
      ELSE ""

\* relayer.py:106-133: the checks of the authorization against what is
\* expected, in the code's order; "" when all pass
Validate(authorization, expected_recipient, expected_amount, t) ==
  IF Lower(ToChecksum(authorization.to)) # Lower(expected_recipient)
  THEN "Recipient mismatch"
  ELSE IF authorization.value < FloatMicro(expected_amount)
  THEN "Amount too low"
  ELSE WindowError(authorization.validAfter, authorization.validBefore, t)

\* the answer that takes any receipt for success; C9 does not hold of it
ConfirmResultAnyReceipt(wait, tx_hash, from_addr) ==
  IF wait \in {"ok", "reverted"}
  THEN [verified |-> TRUE, tx_hash |-> tx_hash, sender |-> from_addr,
        error |-> ""]
  ELSE RelayFailed(tx_hash, "Transaction sent but confirmation failed")

\* the answer of the outer handler for every failure after the send; C25 does
\* not hold of it
ConfirmResultOneFailure(wait, tx_hash, from_addr) ==
  IF wait = "ok"
  THEN [verified |-> TRUE, tx_hash |-> tx_hash, sender |-> from_addr,
        error |-> ""]
  ELSE RelayFailed("", "Execution failed")

\* relayer.py:194-220: the answer once the transaction was sent
ConfirmResult(wait, tx_hash, from_addr) ==
  CASE wait = "ok" ->
         [verified |-> TRUE, tx_hash |-> tx_hash, sender |-> from_addr,
          error |-> ""]
    [] wait = "reverted" -> RelayFailed(tx_hash, "Transaction reverted")
    [] OTHER ->
         RelayFailed(tx_hash, "Transaction sent but confirmation failed")

\* a transaction of the account was mined with nonce acct: the pending ones
\* with that nonce can no longer be mined
Supersede(txs, acct) ==
  [i \in 1..Len(txs) |->
     IF txs[i].state = "pending" /\ txs[i].acct = acct
     THEN [txs[i] EXCEPT !.state = "dropped"] ELSE txs[i]]

\* the transaction sent without an estimate; C28 does not hold of it
EstimateGasSkipped(authorization, sigok, used, t, env) == TRUE

\* relayer.py:177-186: estimate_gas runs the call on the node; it raises when
\* the node cannot run it or the call would revert
EstimateGas(authorization, sigok, used, t, env) ==
  env.est /\ CallSucceeds(authorization, sigok, used, t)

\* relayer.py:74-227.  t: time.time(); txs, used: the chain (the relayer
\* account's transactions, the authorization nonces consumed).  env: what
\* the chain answers: balance (the account holds the minimum), est (the
\* node can run the estimate and the payer has the funds), wait ("ok",
\* "reverted", "timeout": what wait_for_transaction_receipt sees), holds
\* (the node that answers send_raw_transaction has the account's pending
\* transactions in its pool).
\* Gives the answer and the chain afterwards.
ExecuteTransfer(authorization, signature, expected_recipient, expected_amount, t, txs, used, env) ==
  LET from_addr == ToChecksum(authorization.from)
      to_addr == ToChecksum(authorization.to)
      value == authorization.value
      same(res) == [res |-> res, txs |-> txs, used |-> used]
      sig == ParseSignature(signature)
      sigok == SignatureValid(authorization, sig.v, sig.r, sig.s)
      nonce == TransactionCount(txs)
      hash == RelayHashes[Len(txs) + 1]
      \* what the transaction does when mined now
      mined == IF env.wait = "timeout" THEN "pending"
               ELSE IF env.wait = "ok"
                       /\ CallSucceeds(authorization, sigok, used, t)
               THEN "ok" ELSE "reverted"
      tx == [auth |-> authorization, sigok |-> sigok, acct |-> nonce,
             state |-> mined, sent_at |-> t]
      invalid == Validate(authorization, expected_recipient, expected_amount, t)
  IN  IF invalid # ""
      THEN same(RelayFailed("", invalid))
      ELSE IF ~HasAccount
      THEN same([verified |-> TRUE, tx_hash |-> "0x00", sender |-> from_addr,
                 error |-> ""])
      ELSE IF ~env.balance
      THEN same(RelayFailed("", "Relayer has insufficient gas"))
      ELSE IF ~sig.ok
      THEN same(RelayFailed("", "Execution failed"))
      ELSE IF ~EstimateGas(authorization, sigok, used, t, env)
      THEN same(RelayFailed("", "Transaction would fail"))
      \* a node that holds a pending transaction with this nonce refuses the
      \* second one, and send_raw_transaction raises
      ELSE IF /\ \E i \in 1..Len(txs) :
                    txs[i].state = "pending" /\ txs[i].acct = nonce
              /\ env.holds
      THEN same(RelayFailed("", "Execution failed"))
      ELSE [res |-> ConfirmResult(IF mined = "pending" THEN "timeout" ELSE mined,
                                  hash, from_addr),
            txs |-> Append(IF mined = "pending" THEN txs
                           ELSE Supersede(txs, nonce), tx),
            used |-> IF mined = "ok" THEN used \cup {authorization.nonce}
                     ELSE used]

-----------------------------------------------------------------------------
(* State *)

VARIABLES
  purchases,  \* the purchases table, by purchase id
  domains,    \* the domains table, by domain name
  now,        \* the clock (datetime.utcnow(), time.time(), the block time)
  txs,        \* the transactions the relayer's account has sent, in order
  used,       \* the authorization nonces the token contract has consumed
  reqs,       \* the HTTP requests: where each handler is, and its locals
  call        \* a direct call of one function: its arguments and its answer

vars == << purchases, domains, now, txs, used, reqs, call >>

\* what a client may ask to buy: domain and years
Offers == { [domain |-> "a.com", years |-> 1] }

DomainNames == { o.domain : o \in Offers }

HeaderNames ==
  { "", "auth_long", "auth_short", "tx_paid", "tx_under", "garbage",
    "auth_list" }

\* the tx_hash of a /purchase/confirm request
ConfirmHashes == { "0xh1", "0xh2" }

\* a row that does not exist
NoPurchase ==
  [domain |-> "", years |-> 0, amount |-> 0, status |-> "none",
   expires_at |-> 0, payer |-> "", tx_hash |-> ""]

\* a grant that does not exist
NoDomain == [owner_wallet |-> "", nameservers |-> ""]

\* no payment requirements
NoChallenge == [maxAmountRequired |-> 0, payTo |-> ""]

NoResult == [verified |-> FALSE, tx_hash |-> "", sender |-> "", error |-> ""]

\* A request.  pc: the database call the handler is at; kind: the endpoint;
\* pid, hdr, conf_hash: its inputs; snap_payer: purchase["payer"] as read at
\* entry; tx_hash, payer: the handler's locals.  What it did: via, result:
\* which of relayer and verifier it called, and the answer; late: the
\* authorization's valid_before had passed when the relayer was called;
\* calls: the calls made so far ("gate": the write of `processing`); resp:
\* its response; challenge: the payment requirements of a 402 response;
\* domain, wallet: the inputs of a domain management request.
IdleReq ==
  [pc |-> "idle", kind |-> "", pid |-> "", hdr |-> "", conf_hash |-> "",
   snap_payer |-> "", tx_hash |-> "", payer |-> "", via |-> "", late |-> FALSE,
   result |-> NoResult, calls |-> {}, resp |-> "", challenge |-> NoChallenge,
   domain |-> "", wallet |-> ""]

\* no function is called directly
NoCall == [fn |-> "", args |-> << >>, done |-> FALSE, out |-> << >>]

\* the server's state after start-up
InitServer ==
  /\ purchases = [p \in PurchaseIds |-> NoPurchase]
  /\ domains = [d \in DomainNames |-> NoDomain]
  /\ now = 1
  /\ txs = << >>
  /\ used = {}
  /\ reqs = [r \in Requests |-> IdleReq]

Init ==
  /\ InitServer
  /\ call = NoCall

-----------------------------------------------------------------------------
(* database.py *)

\* the row written anew from the updates alone, as INSERT OR REPLACE would;
\* C24 does not hold of it
UpdatePurchaseReplace(table, purchase_id, updates) ==
  [table EXCEPT ![purchase_id] =
     IF @.status = "none" THEN @
     ELSE [f \in DOMAIN @ |->
             IF f \in DOMAIN updates THEN updates[f] ELSE NoPurchase[f]]]

\* database.py:160-196: UPDATE purchases SET ... WHERE id = purchase_id
UpdatePurchase(table, purchase_id, updates) ==
  [table EXCEPT ![purchase_id] =
     IF @.status = "none" THEN @
     ELSE [f \in DOMAIN @ |-> IF f \in DOMAIN updates THEN updates[f] ELSE @[f]]]

\* database.py:200-237: INSERT OR REPLACE INTO domains
CreateDomain(table, domain_name, owner_wallet) ==
  [table EXCEPT ![domain_name] =
     [owner_wallet |-> owner_wallet, nameservers |-> "ns_registrar"]]

\* database.py:240-265: None when there is no row
GetDomain(table, domain_name) == table[domain_name]

-----------------------------------------------------------------------------
(* The environment *)

\* main.py:256-310 initiate_purchase
InitiatePurchase(p, offer) ==
  /\ purchases[p].status = "none"
  /\ \E i \in 1..Len(PurchaseSeq) :
        /\ PurchaseSeq[i] = p
        /\ \A j \in 1..(i - 1) : purchases[PurchaseSeq[j]].status # "none"
  /\ purchases' = [purchases EXCEPT ![p] =
       [domain |-> offer.domain, years |-> offer.years,
        amount |-> TotalPrice(offer.domain, offer.years),
        status |-> "pending", expires_at |-> now + OfferWindow,
        payer |-> "", tx_hash |-> ""]]
  /\ UNCHANGED << domains, now, txs, used, reqs, call >>

\* time passes
Tick ==
  /\ now < MaxTime
  /\ now' = now + 1
  /\ UNCHANGED << purchases, domains, txs, used, reqs, call >>

\* a transaction left pending by a confirmation timeout is mined
ChainMine(i) ==
  /\ txs[i].state = "pending"
  /\ LET ok == CallSucceeds(txs[i].auth, txs[i].sigok, used, now)
     IN  /\ txs' = [Supersede([txs EXCEPT ![i].state = "mining"], txs[i].acct)
                      EXCEPT ![i].state = IF ok THEN "ok" ELSE "reverted"]
         /\ used' = IF ok THEN used \cup {txs[i].auth.nonce} ELSE used
  /\ UNCHANGED << purchases, domains, now, reqs, call >>

\* a pending transaction is dropped from the pool
ChainDrop(i) ==
  /\ txs[i].state = "pending"
  /\ txs' = [txs EXCEPT ![i].state = "dropped"]
  /\ UNCHANGED << purchases, domains, now, used, reqs, call >>

-----------------------------------------------------------------------------
(* Requests *)

\* request slots are taken in order
Arrives(r) ==
  /\ reqs[r].pc = "idle"
  /\ \A q \in Requests : q < r => reqs[q].pc # "idle"

At(r, pc) == reqs[r].pc = pc

\* the handler returns or raises: its locals are gone
Respond(req, resp) ==
  [req EXCEPT !.pc = "done", !.resp = resp, !.snap_payer = "", !.tx_hash = "",
              !.payer = ""]

\* porkbun.register_domain answers SUCCESS or ERROR, or raises
RegistrarAnswers == { "SUCCESS", "ERROR", "raise" }

\* what the chain may answer to one execute_transfer
RelayEnvs ==
  { env \in [balance : BOOLEAN, est : BOOLEAN,
             wait : {"ok", "reverted", "timeout"}, holds : BOOLEAN] :
      \* an answer that is never asked for is written one way only
      /\ ~env.balance => ~env.est
      /\ ~env.est => env.holds /\ env.wait = "timeout" }

\* the payer as the header declares it; C6 does not hold of it
VerifiedPayerDeclared(verification, payer) == payer

\* main.py:418 and 502: result.get("sender", payer)
VerifiedPayer(verification, payer) == verification.sender

\* main.py:397: auth and signature and auth.get("from") and auth.get("to")
HasAuthorization(auth, signature) ==
  /\ auth # NoAuth
  /\ signature # NoSig
  /\ auth.from # ""
  /\ auth.to # ""

\* the handler has called porkbun.register_domain and goes on by its answer
Registered(req, answer, prefix) ==
  [req EXCEPT
     !.calls = @ \cup {"registrar"},
     !.pc = CASE answer = "SUCCESS" -> prefix \o "_w_completed"
              [] answer = "ERROR" -> prefix \o "_w_registration_failed"
              [] OTHER -> prefix \o "_w_error"]

-----------------------------------------------------------------------------
(* main.py:316-594 x402_payment *)

\* main.py:318-331: get_purchase and the checks on what it read
X402Begin(r, p, h) ==
  /\ Arrives(r)
  /\ LET purchase == purchases[p]
         req == [reqs[r] EXCEPT !.kind = "x402", !.pid = p, !.hdr = h]
     IN  reqs' = [reqs EXCEPT ![r] =
           IF purchase.status = "none" THEN Respond(req, "404")
           ELSE IF purchase.status = "completed"
           THEN [req EXCEPT !.pc = "x_get_domain"]
           ELSE IF purchase.status \notin {"pending", "awaiting_payment"}
           THEN Respond(req, "400 status")
           ELSE IF h # "" THEN [req EXCEPT !.pc = "x_w_processing"]
           ELSE [req EXCEPT !.pc = "x_w_challenge"]]
  /\ UNCHANGED << purchases, domains, now, txs, used, call >>

\* main.py:323-324: a completed purchase answers with the stored grant
X402GetDomain(r) ==
  /\ At(r, "x_get_domain")
  /\ reqs' = [reqs EXCEPT ![r] = Respond(@, "200 existing grant")]
  /\ UNCHANGED << purchases, domains, now, txs, used, call >>

\* main.py:336-424 and 479-502: the header is parsed and the relayer or the
\* verifier is called; gives the request afterwards and the chain
Pay(req, purchase, t, chain_txs, chain_used, env) ==
  LET d == DecodeHeader(HeaderOf(req.hdr))
      out == ExecuteTransfer(d.auth, d.signature, TREASURY_ADDRESS,
                             purchase.amount, t, chain_txs, chain_used, env)
      verification ==
        IF SKIP_PAYMENT_VERIFICATION
        THEN [verified |-> TRUE, amount |-> 0, sender |-> d.payer,
              recipient |-> "", error |-> ""]
        ELSE VerifyPayment(d.tx_hash, GetReceipt(d.tx_hash, chain_txs),
                           purchase.amount, TREASURY_ADDRESS)
      same(rq) == [req |-> rq, txs |-> chain_txs, used |-> chain_used]
  IN  IF d.tx_hash = ""
      THEN IF d.auth_type # "dict" /\ d.signature # NoSig
           THEN \* line 397: auth.get raises outside every try
                same(Respond(req, "500 unhandled"))
           ELSE IF HasAuthorization(d.auth, d.signature)
           THEN [req |-> [req EXCEPT
                            !.via = "relayer", !.result = out.res,
                            !.late = t > d.auth.validBefore,
                            !.calls = @ \cup {"relayer"},
                            !.tx_hash = IF out.res.verified
                                        THEN out.res.tx_hash ELSE "",
                            !.payer = IF out.res.verified
                                      THEN VerifiedPayer(out.res, d.payer)
                                      ELSE "",
                            !.pc = IF out.res.verified THEN "x_w_payer"
                                   ELSE "x_w_relay_failed"],
                 txs |-> out.txs, used |-> out.used]
           ELSE same([req EXCEPT !.pc = "x_w_no_proof"])
      ELSE IF SKIP_PAYMENT_VERIFICATION /\ ENVIRONMENT = "production"
      THEN same([req EXCEPT !.pc = "x_w_misconfigured"])
      ELSE same([req EXCEPT
                   !.via = "verifier",
                   !.result = [verified |-> verification.verified,
                               tx_hash |-> d.tx_hash,
                               sender |-> verification.sender,
                               error |-> verification.error],
                   !.calls = @ \cup {"verifier"},
                   !.tx_hash = d.tx_hash,
                   !.payer = IF verification.verified
                             THEN VerifiedPayer(verification, d.payer) ELSE "",
                   !.pc = IF verification.verified THEN "x_w_payer"
                          ELSE "x_w_payment_failed"])

\* main.py:333-424, 473-502: the write of `processing`, then the payment
X402Process(r, env) ==
  /\ At(r, "x_w_processing")
  /\ purchases' = UpdatePurchase(purchases, reqs[r].pid, [status |-> "processing"])
  /\ LET out == Pay([reqs[r] EXCEPT !.calls = @ \cup {"gate"}],
                    purchases[reqs[r].pid], now, txs, used, env)
     IN  /\ reqs' = [reqs EXCEPT ![r] = out.req]
         /\ txs' = out.txs
         /\ used' = out.used
  /\ UNCHANGED << domains, now, call >>

\* main.py:409-414
X402WriteRelayFailed(r) ==
  /\ At(r, "x_w_relay_failed")
  /\ purchases' = UpdatePurchase(purchases, reqs[r].pid, [status |-> "awaiting_payment"])
  /\ reqs' = [reqs EXCEPT ![r] = Respond(@, "400 payment execution failed")]
  /\ UNCHANGED << domains, now, txs, used, call >>

\* main.py:475-477
X402WriteNoProof(r) ==
  /\ At(r, "x_w_no_proof")
  /\ purchases' = UpdatePurchase(purchases, reqs[r].pid, [status |-> "awaiting_payment"])
  /\ reqs' = [reqs EXCEPT ![r] = Respond(@, "400 missing proof")]
  /\ UNCHANGED << domains, now, txs, used, call >>

\* main.py:493-499, and 480-483 when verification is switched off in
\* production
X402WritePaymentFailed(r) ==
  /\ reqs[r].pc \in {"x_w_payment_failed", "x_w_misconfigured"}
  /\ purchases' = UpdatePurchase(purchases, reqs[r].pid,
                    IF At(r, "x_w_misconfigured")
                    THEN [status |-> "payment_failed"]
                    ELSE [status |-> "payment_failed", tx_hash |-> reqs[r].tx_hash])
  /\ reqs' = [reqs EXCEPT ![r] =
                Respond(@, IF At(r, "x_w_misconfigured") THEN "500 misconfigured"
                           ELSE "402 verification failed")]
  /\ UNCHANGED << domains, now, txs, used, call >>

\* main.py:424 and 503: the updates once settlement is established
PayerUpdate(verified_payer, tx_hash) ==
  [payer |-> verified_payer, tx_hash |-> tx_hash]

\* main.py:424-434 and 503-512: payer and tx_hash are written, then the
\* registrar is called
X402WritePayer(r, answer) ==
  /\ At(r, "x_w_payer")
  /\ purchases' = UpdatePurchase(purchases, reqs[r].pid,
                    PayerUpdate(reqs[r].payer, reqs[r].tx_hash))
  /\ reqs' = [reqs EXCEPT ![r] = Registered(@, answer, "x")]
  /\ UNCHANGED << domains, now, txs, used, call >>

\* the relayer's failure update in the registrar's place; C10 does not hold
\* of it
RegistrationFailedAsRetry == [status |-> "awaiting_payment"]

\* main.py:435 and 513: the update when the registrar did not answer SUCCESS
RegistrationFailedUpdate == [status |-> "registration_failed"]

\* main.py:435-439 and 513-517
X402WriteRegistrationFailed(r) ==
  /\ At(r, "x_w_registration_failed")
  /\ purchases' = UpdatePurchase(purchases, reqs[r].pid, RegistrationFailedUpdate)
  /\ reqs' = [reqs EXCEPT ![r] = Respond(@, "500 registration failed")]
  /\ UNCHANGED << domains, now, txs, used, call >>

\* the purchase left in `processing`; C13 does not hold of it
CompletedLeftProcessing == [status |-> "processing"]

\* main.py:441 and 519: the update when the registrar answered SUCCESS
CompletedUpdate == [status |-> "completed"]

\* main.py:441 and 519
X402WriteCompleted(r) ==
  /\ At(r, "x_w_completed")
  /\ purchases' = UpdatePurchase(purchases, reqs[r].pid, CompletedUpdate)
  /\ reqs' = [reqs EXCEPT ![r].pc = "x_create_domain"]
  /\ UNCHANGED << domains, now, txs, used, call >>

\* main.py:443-463 and 521-541
X402CreateDomain(r) ==
  /\ At(r, "x_create_domain")
  /\ domains' = CreateDomain(domains, purchases[reqs[r].pid].domain, reqs[r].payer)
  /\ reqs' = [reqs EXCEPT ![r] =
                Respond([@ EXCEPT !.calls = @ \cup {"create_domain"}],
                        "200 registered")]
  /\ UNCHANGED << purchases, now, txs, used, call >>

\* main.py:465-471 and 543-549
X402WriteError(r) ==
  /\ At(r, "x_w_error")
  /\ purchases' = UpdatePurchase(purchases, reqs[r].pid, [status |-> "error"])
  /\ reqs' = [reqs EXCEPT ![r] = Respond(@, "500 error")]
  /\ UNCHANGED << domains, now, txs, used, call >>

\* main.py:555: amount_micro = str(int(float(purchase['amount']) * 1_000_000))
AmountMicro(amount) == FloatMicro(amount)

\* main.py:562-589: the payment requirements of the 402 response
Challenge(purchase) ==
  [maxAmountRequired |-> AmountMicro(purchase.amount),
   payTo |-> TREASURY_ADDRESS]

\* main.py:551-594: no proof, the payment-required challenge
X402WriteChallenge(r) ==
  /\ At(r, "x_w_challenge")
  /\ purchases' = UpdatePurchase(purchases, reqs[r].pid, [status |-> "awaiting_payment"])
  /\ reqs' = [reqs EXCEPT ![r] =
                Respond([@ EXCEPT !.challenge = Challenge(purchases[reqs[r].pid])],
                        "402 payment required")]
  /\ UNCHANGED << domains, now, txs, used, call >>

-----------------------------------------------------------------------------
(* main.py:638-719 confirm_purchase *)

\* main.py:655-686: the offer's expiry, the verifier, the registrar (the
\* status "failed" of line 655 is never written)
ConfirmCheck(req, purchase, t, chain_txs, answer) ==
  LET verification ==
        IF SKIP_PAYMENT_VERIFICATION
        THEN [verified |-> TRUE, amount |-> 0, sender |-> "",
              recipient |-> "", error |-> ""]
        ELSE VerifyPayment(req.conf_hash, GetReceipt(req.conf_hash, chain_txs),
                           purchase.amount, TREASURY_ADDRESS)
      checked == [req EXCEPT
                    !.via = "verifier",
                    !.result = [verified |-> verification.verified,
                                tx_hash |-> req.conf_hash,
                                sender |-> verification.sender,
                                error |-> verification.error],
                    !.calls = @ \cup {"verifier"}]
  IN  IF t > purchase.expires_at THEN [req EXCEPT !.pc = "c_w_expired"]
      ELSE IF ~verification.verified
      THEN [checked EXCEPT !.pc = "c_w_payment_failed"]
      ELSE Registered(checked, answer, "c")

\* main.py:641-686: get_purchase, and the checks on what it read
ConfirmBegin(r, p, h, answer) ==
  /\ Arrives(r)
  /\ LET purchase == purchases[p]
         req == [reqs[r] EXCEPT !.kind = "confirm", !.pid = p, !.conf_hash = h,
                                !.snap_payer = purchase.payer]
     IN  reqs' = [reqs EXCEPT ![r] =
           IF purchase.status = "none" THEN Respond(req, "404")
           ELSE IF purchase.status = "completed"
           THEN [req EXCEPT !.pc = "c_get_domain"]
           ELSE ConfirmCheck(req, purchase, now, txs, answer)]
  /\ UNCHANGED << purchases, domains, now, txs, used, call >>

\* main.py:647-686: the stored grant, when there is one; the checks go on
\* when there is none
ConfirmGetDomain(r, answer) ==
  /\ At(r, "c_get_domain")
  /\ reqs' = [reqs EXCEPT ![r] =
       IF GetDomain(domains, purchases[reqs[r].pid].domain) # NoDomain
       THEN Respond(@, "200 already_completed")
       ELSE ConfirmCheck(@, purchases[reqs[r].pid], now, txs, answer)]
  /\ UNCHANGED << purchases, domains, now, txs, used, call >>

\* main.py:660-661
ConfirmWriteExpired(r) ==
  /\ At(r, "c_w_expired")
  /\ purchases' = UpdatePurchase(purchases, reqs[r].pid, [status |-> "expired"])
  /\ reqs' = [reqs EXCEPT ![r] = Respond(@, "400 expired")]
  /\ UNCHANGED << domains, now, txs, used, call >>

\* main.py:673-678
ConfirmWritePaymentFailed(r) ==
  /\ At(r, "c_w_payment_failed")
  /\ purchases' = UpdatePurchase(purchases, reqs[r].pid, [status |-> "payment_failed"])
  /\ reqs' = [reqs EXCEPT ![r] = Respond(@, "200 payment_failed")]
  /\ UNCHANGED << domains, now, txs, used, call >>

\* main.py:687-692
ConfirmWriteRegistrationFailed(r) ==
  /\ At(r, "c_w_registration_failed")
  /\ purchases' = UpdatePurchase(purchases, reqs[r].pid, [status |-> "registration_failed"])
  /\ reqs' = [reqs EXCEPT ![r] = Respond(@, "200 registration_failed")]
  /\ UNCHANGED << domains, now, txs, used, call >>

\* main.py:694
ConfirmWriteCompleted(r) ==
  /\ At(r, "c_w_completed")
  /\ purchases' = UpdatePurchase(purchases, reqs[r].pid,
                    [status |-> "completed", tx_hash |-> reqs[r].conf_hash])
  /\ reqs' = [reqs EXCEPT ![r].pc = "c_create_domain"]
  /\ UNCHANGED << domains, now, txs, used, call >>

\* main.py:696-710: owner_wallet is purchase.get("payer", "") of the row read
\* at entry; a NULL payer breaks the NOT NULL of domains.owner_wallet and the
\* insert raises
ConfirmCreateDomain(r) ==
  /\ At(r, "c_create_domain")
  /\ IF reqs[r].snap_payer = ""
     THEN /\ reqs' = [reqs EXCEPT ![r].pc = "c_w_error"]
          /\ UNCHANGED domains
     ELSE /\ domains' = CreateDomain(domains, purchases[reqs[r].pid].domain,
                                     reqs[r].snap_payer)
          /\ reqs' = [reqs EXCEPT ![r] =
                        Respond([@ EXCEPT !.calls = @ \cup {"create_domain"}],
                                "200 success")]
  /\ UNCHANGED << purchases, now, txs, used, call >>

\* main.py:712-719
ConfirmWriteError(r) ==
  /\ At(r, "c_w_error")
  /\ purchases' = UpdatePurchase(purchases, reqs[r].pid, [status |-> "error"])
  /\ reqs' = [reqs EXCEPT ![r] = Respond(@, "200 error")]
  /\ UNCHANGED << domains, now, txs, used, call >>

-----------------------------------------------------------------------------
(* main.py:598-634 complete_purchase *)

\* main.py:601-611: get_purchase, then the registrar is called
CompleteBegin(r, p, answer) ==
  /\ Arrives(r)
  /\ LET purchase == purchases[p]
         req == [reqs[r] EXCEPT !.kind = "complete", !.pid = p,
                                !.snap_payer = purchase.payer]
     IN  reqs' = [reqs EXCEPT ![r] =
           IF purchase.status = "none" THEN Respond(req, "404")
           ELSE Registered(req, answer, "k")]
  /\ UNCHANGED << purchases, domains, now, txs, used, call >>

\* main.py:612-613
CompleteWriteRegistrationFailed(r) ==
  /\ At(r, "k_w_registration_failed")
  /\ purchases' = UpdatePurchase(purchases, reqs[r].pid, [status |-> "registration_failed"])
  /\ reqs' = [reqs EXCEPT ![r] = Respond(@, "500 registration failed")]
  /\ UNCHANGED << domains, now, txs, used, call >>

\* main.py:615
CompleteWriteCompleted(r) ==
  /\ At(r, "k_w_completed")
  /\ purchases' = UpdatePurchase(purchases, reqs[r].pid, [status |-> "completed"])
  /\ reqs' = [reqs EXCEPT ![r].pc = "k_create_domain"]
  /\ UNCHANGED << domains, now, txs, used, call >>

\* main.py:617-627: as in confirm_purchase, a NULL payer makes the insert
\* raise
CompleteCreateDomain(r) ==
  /\ At(r, "k_create_domain")
  /\ IF reqs[r].snap_payer = ""
     THEN /\ reqs' = [reqs EXCEPT ![r].pc = "k_w_error"]
          /\ UNCHANGED domains
     ELSE /\ domains' = CreateDomain(domains, purchases[reqs[r].pid].domain,
                                     reqs[r].snap_payer)
          /\ reqs' = [reqs EXCEPT ![r] =
                        Respond([@ EXCEPT !.calls = @ \cup {"create_domain"}],
                                "200 success")]
  /\ UNCHANGED << purchases, now, txs, used, call >>

\* main.py:631-634
CompleteWriteError(r) ==
  /\ At(r, "k_w_error")
  /\ purchases' = UpdatePurchase(purchases, reqs[r].pid, [status |-> "error"])
  /\ reqs' = [reqs EXCEPT ![r] = Respond(@, "500 error")]
  /\ UNCHANGED << domains, now, txs, used, call >>

-----------------------------------------------------------------------------
(* The system *)

Next ==
  \/ \E p \in PurchaseIds, o \in Offers : InitiatePurchase(p, o)
  \/ Tick
  \/ \E i \in 1..Len(txs) : ChainMine(i)
  \/ \E i \in 1..Len(txs) : ChainDrop(i)
  \/ \E r \in Requests, p \in PurchaseIds, h \in HeaderNames : X402Begin(r, p, h)
  \/ \E r \in Requests : X402GetDomain(r)
  \/ \E r \in Requests, env \in RelayEnvs : X402Process(r, env)
  \/ \E r \in Requests : X402WriteRelayFailed(r)
  \/ \E r \in Requests : X402WriteNoProof(r)
  \/ \E r \in Requests : X402WritePaymentFailed(r)
  \/ \E r \in Requests, a \in RegistrarAnswers : X402WritePayer(r, a)
  \/ \E r \in Requests : X402WriteRegistrationFailed(r)
  \/ \E r \in Requests : X402WriteCompleted(r)
  \/ \E r \in Requests : X402CreateDomain(r)
  \/ \E r \in Requests : X402WriteError(r)
  \/ \E r \in Requests : X402WriteChallenge(r)
  \/ \E r \in Requests, p \in PurchaseIds, h \in ConfirmHashes, a \in RegistrarAnswers :
        ConfirmBegin(r, p, h, a)
  \/ \E r \in Requests, a \in RegistrarAnswers : ConfirmGetDomain(r, a)
  \/ \E r \in Requests : ConfirmWriteExpired(r)
  \/ \E r \in Requests : ConfirmWritePaymentFailed(r)
  \/ \E r \in Requests : ConfirmWriteRegistrationFailed(r)
  \/ \E r \in Requests : ConfirmWriteCompleted(r)
  \/ \E r \in Requests : ConfirmCreateDomain(r)
  \/ \E r \in Requests : ConfirmWriteError(r)
  \/ \E r \in Requests, p \in PurchaseIds, a \in RegistrarAnswers : CompleteBegin(r, p, a)
  \/ \E r \in Requests : CompleteWriteRegistrationFailed(r)
  \/ \E r \in Requests : CompleteWriteCompleted(r)
  \/ \E r \in Requests : CompleteCreateDomain(r)
  \/ \E r \in Requests : CompleteWriteError(r)

Spec == Init /\ [][Next]_vars

-----------------------------------------------------------------------------
(* verify_payment called directly, on the receipts a transaction can have *)

\* event logs of a receipt: Transfers of the token to the treasury (the
\* price, more, less) and to somebody else, a Transfer of another token,
\* another event of the token
LogPool ==
  { TransferLog("0xalic", "0xtrea", 12990000),
    TransferLog("0xmall", "0xtrea", 13000000),
    TransferLog("0xalic", "0xtrea", 10000000),
    TransferLog("0xmall", "0xothe", 12990000),
    [TransferLog("0xothe", "0xtrea", 12990000) EXCEPT !.address = "0xOtHe"],
    [TransferLog("0xothe", "0xtrea", 12990000) EXCEPT
       !.topic0 = "Approval(address,address,uint256)"] }

SeqsUpTo(S, n) == UNION { [1..k -> S] : k \in 0..n }

\* what get_transaction_receipt may answer
Receipts ==
  {NoReceipt, NoneReceipt, FailedRead} \cup
  { [found |-> TRUE, raised |-> "", status |-> st, logs |-> l] :
      st \in {0, 1}, l \in SeqsUpTo(LogPool, MaxLogs) }

InitVerify ==
  /\ InitServer
  /\ call \in { [fn |-> "verify_payment",
                 args |-> [receipt |-> rc, expected_amount |-> 1299,
                           expected_recipient |-> TREASURY_ADDRESS],
                 done |-> FALSE, out |-> NotVerified("")] : rc \in Receipts }

\* payments.py:25-117: the call answers
VerifyCall ==
  /\ call.fn = "verify_payment"
  /\ ~call.done
  /\ call' = [call EXCEPT
                !.done = TRUE,
                !.out = VerifyPayment("0xh", call.args.receipt,
                                      call.args.expected_amount,
                                      call.args.expected_recipient)]
  /\ UNCHANGED << purchases, domains, now, txs, used, reqs >>

NextVerify == VerifyCall

SpecVerify == InitVerify /\ [][NextVerify]_vars

-----------------------------------------------------------------------------
(* The payment-required challenge over the price table *)

\* offers of one year and of several years, of both price classes
PricedOffers ==
  { [domain |-> "a.com", years |-> 1],
    [domain |-> "a.com", years |-> 4],
    [domain |-> "b.dev", years |-> 1],
    [domain |-> "b.dev", years |-> 4] }

InitChallenge ==
  /\ purchases = [p \in PurchaseIds |-> NoPurchase]
  /\ domains = [d \in { o.domain : o \in PricedOffers } |-> NoDomain]
  /\ now = 1
  /\ txs = << >>
  /\ used = {}
  /\ reqs = [r \in Requests |-> IdleReq]
  /\ call = NoCall

\* purchases are initiated and requests without a proof ask for the
\* challenge
NextChallenge ==
  \/ \E p \in PurchaseIds, o \in PricedOffers : InitiatePurchase(p, o)
  \/ Tick
  \/ \E r \in Requests, p \in PurchaseIds : X402Begin(r, p, "")
  \/ \E r \in Requests : X402WriteChallenge(r)

SpecChallenge == InitChallenge /\ [][NextChallenge]_vars

-----------------------------------------------------------------------------
(* The event loop while a request is in the relayer *)

\* relayer.py:107-133: the answers given before the first call to the node
NoNodeCall ==
  { "Recipient mismatch", "Amount too low", "Authorization not yet valid",
    "Authorization expired" }

\* relayer.py:146-196: get_balance, get_transaction_count, estimate_gas,
\* send_raw_transaction and wait_for_transaction_receipt are calls of the
\* synchronous Web3 client in a coroutine: it does not await, and the one
\* event loop (main.py:941) runs no other handler until it returns
LoopBlocked == \E r \in Requests : reqs[r].pc = "x_in_relayer"

\* main.py:333-406 and relayer.py:146-196: the write of `processing`, then
\* the handler is in execute_transfer's calls to the node; env is what the
\* node will have answered
X402EnterRelayer(r, env) ==
  /\ ~LoopBlocked
  /\ At(r, "x_w_processing")
  /\ purchases' = UpdatePurchase(purchases, reqs[r].pid, [status |-> "processing"])
  /\ LET out == Pay([reqs[r] EXCEPT !.calls = @ \cup {"gate"}],
                    purchases[reqs[r].pid], now, txs, used, env)
     IN  /\ reqs' = [reqs EXCEPT ![r] =
               IF out.req.via = "relayer" /\ out.req.result.error \notin NoNodeCall
               THEN [out.req EXCEPT !.pc = "x_in_relayer"]
               ELSE out.req]
         /\ txs' = out.txs
         /\ used' = out.used
  /\ UNCHANGED << domains, now, call >>

\* main.py:408-424: execute_transfer has returned
X402LeaveRelayer(r) ==
  /\ At(r, "x_in_relayer")
  /\ reqs' = [reqs EXCEPT ![r].pc =
                IF reqs[r].result.verified THEN "x_w_payer"
                ELSE "x_w_relay_failed"]
  /\ UNCHANGED << purchases, domains, now, txs, used, call >>

\* a handler runs from one await to the next when the loop is free
NextLoop ==
  \/ Tick
  \/ \E r \in Requests : X402LeaveRelayer(r)
  \/ \E r \in Requests, env \in RelayEnvs : X402EnterRelayer(r, env)
  \/ ~LoopBlocked /\ \E p \in PurchaseIds, o \in Offers : InitiatePurchase(p, o)
  \/ ~LoopBlocked /\ \E r \in Requests, p \in PurchaseIds, h \in {"", "auth_long"} :
                        X402Begin(r, p, h)
  \/ ~LoopBlocked /\ \E r \in Requests : X402WriteChallenge(r)
  \/ ~LoopBlocked /\ \E r \in Requests : X402WriteRelayFailed(r)
  \/ ~LoopBlocked /\ \E r \in Requests, a \in RegistrarAnswers : X402WritePayer(r, a)
  \/ ~LoopBlocked /\ \E r \in Requests : X402WriteRegistrationFailed(r)
  \/ ~LoopBlocked /\ \E r \in Requests : X402WriteCompleted(r)
  \/ ~LoopBlocked /\ \E r \in Requests : X402CreateDomain(r)
  \/ ~LoopBlocked /\ \E r \in Requests : X402WriteError(r)
  \/ ~LoopBlocked /\ \E r \in Requests : X402GetDomain(r)

SpecLoop == Init /\ [][NextLoop]_vars

-----------------------------------------------------------------------------
(* Envelopes that carry a transaction hash and an authorization *)

\* base64 envelopes whose payload holds a hash, as payload.transactionHash
\* or as payload.transaction.hash, next to an authorization and a signature
EnvelopeHeaders == { "hash_and_auth", "nested_and_auth", "nested_under_and_auth" }

NextEnvelope ==
  \/ \E p \in PurchaseIds, o \in Offers : InitiatePurchase(p, o)
  \/ \E r \in Requests, p \in PurchaseIds, h \in EnvelopeHeaders : X402Begin(r, p, h)
  \/ \E r \in Requests : X402GetDomain(r)
  \/ \E r \in Requests, env \in RelayEnvs : X402Process(r, env)
  \/ \E r \in Requests : X402WriteRelayFailed(r)
  \/ \E r \in Requests : X402WritePaymentFailed(r)
  \/ \E r \in Requests, a \in RegistrarAnswers : X402WritePayer(r, a)
  \/ \E r \in Requests : X402WriteRegistrationFailed(r)
  \/ \E r \in Requests : X402WriteCompleted(r)
  \/ \E r \in Requests : X402CreateDomain(r)
  \/ \E r \in Requests : X402WriteError(r)

SpecEnvelope == Init /\ [][NextEnvelope]_vars

-----------------------------------------------------------------------------
(* Domain management *)

\* the check that takes any wallet for the owner of a grant that exists;
\* C40 does not hold of it
VerifyDomainOwnerAnyGrant(table, domain, wallet_address) ==
  GetDomain(table, domain) # NoDomain

\* database.py:351-356
VerifyDomainOwner(table, domain, wallet_address) ==
  LET domain_info == GetDomain(table, domain)
  IN  IF domain_info = NoDomain THEN FALSE
      ELSE Lower(domain_info.owner_wallet) = Lower(wallet_address)

\* database.py:334-348
UpdateDomainNameservers(table, domain, nameservers) ==
  IF table[domain] = NoDomain THEN table
  ELSE [table EXCEPT ![domain].nameservers = nameservers]

\* main.py:796-930: the five endpoints
ManageOps ==
  { "get_auth_code", "update_nameservers", "get_dns_records",
    "create_dns_record", "delete_dns_record" }

\* a name with a grant and a name without
ManageDomains == { "a.com", "b.dev" }

\* wallets as requests spell them
ManageWallets == { "0xAlIc", "0xalic", "0xMaLl" }

\* A database after two purchases of a.com: p1, paid by 0xalic in 0xh1 and
\* completed, with its grant; p2, paid by 0xmall through the relayer, whose
\* registration failed.
InitManage ==
  /\ purchases =
       [p \in PurchaseIds |->
          IF p = "p1"
          THEN [domain |-> "a.com", years |-> 1, amount |-> 1299,
                status |-> "completed", expires_at |-> 2, payer |-> "0xalic",
                tx_hash |-> "0xh1"]
          ELSE [domain |-> "a.com", years |-> 1, amount |-> 1299,
                status |-> "registration_failed", expires_at |-> 2,
                payer |-> "0xMaLl", tx_hash |-> "0xr1"]]
  /\ domains =
       [d \in ManageDomains |->
          IF d = "a.com"
          THEN [owner_wallet |-> "0xalic", nameservers |-> "ns_registrar"]
          ELSE NoDomain]
  /\ now = 1
  /\ txs = << [auth |-> AuthShort, sigok |-> TRUE, acct |-> 0, state |-> "ok",
               sent_at |-> 1] >>
  /\ used = {"n2"}
  /\ reqs = [r \in Requests |-> IdleReq]
  /\ call = NoCall

\* main.py:796-930: verify_domain_owner, then the registrar's call.  Only
\* update_nameservers goes on to the database, when the registrar answers
\* SUCCESS.
ManageBegin(r, op, d, w, answer) ==
  /\ Arrives(r)
  /\ LET req == [reqs[r] EXCEPT !.kind = op, !.domain = d, !.wallet = w]
         called == [req EXCEPT !.calls = @ \cup {"registrar"}]
     IN  reqs' = [reqs EXCEPT ![r] =
           IF ~VerifyDomainOwner(domains, d, w) THEN Respond(req, "403")
           ELSE IF answer # "SUCCESS" THEN Respond(called, "500")
           ELSE IF op = "update_nameservers"
           THEN [called EXCEPT !.pc = "m_w_nameservers"]
           ELSE Respond(called, "200 success")]
  /\ UNCHANGED << purchases, domains, now, txs, used, call >>

\* main.py:843-850
ManageWriteNameservers(r) ==
  /\ At(r, "m_w_nameservers")
  /\ domains' = UpdateDomainNameservers(domains, reqs[r].domain, "ns_custom")
  /\ reqs' = [reqs EXCEPT ![r] =
                Respond([@ EXCEPT !.calls = @ \cup {"update_nameservers"}],
                        "200 success")]
  /\ UNCHANGED << purchases, now, txs, used, call >>

NextManage ==
  \/ \E r \in Requests, op \in ManageOps, d \in ManageDomains, w \in ManageWallets, a \in RegistrarAnswers :
        ManageBegin(r, op, d, w, a)
  \/ \E r \in Requests : ManageWriteNameservers(r)
  \/ \E r \in Requests, p \in PurchaseIds, a \in RegistrarAnswers : CompleteBegin(r, p, a)
  \/ \E r \in Requests : CompleteWriteRegistrationFailed(r)
  \/ \E r \in Requests : CompleteWriteCompleted(r)
  \/ \E r \in Requests : CompleteCreateDomain(r)
  \/ \E r \in Requests : CompleteWriteError(r)

SpecManage == InitManage /\ [][NextManage]_vars

-----------------------------------------------------------------------------
(* The relayer's execute_transfer and parse_signature over their inputs *)

\* authorizations right and wrong in recipient, value and validity window
RelayAuths ==
  { [from |-> "0xalic", to |-> to, value |-> value, validAfter |-> va,
     validBefore |-> vb, nonce |-> "n1"] :
      to \in {"0xtrea", "0xothe"}, value \in {12990000, 10000000},
      va \in {0, 2}, vb \in {2, 3} }

\* signatures of 65 bytes with each recovery byte, and of 64 and 66 bytes
RelaySignatures ==
  { SigBytes("n1", v) : v \in {0, 1, 27, 28} }
    \cup { SubSeq(SigBytes("n1", 27), 1, 64), Append(SigBytes("n1", 27), 27) }

NoTransfer == [res |-> NoResult, txs |-> << >>, used |-> {}]

InitRelay ==
  /\ InitServer
  /\ call \in
       { [fn |-> "execute_transfer",
          args |-> [authorization |-> a, signature |-> sg,
                    expected_recipient |-> TREASURY_ADDRESS,
                    expected_amount |-> 1299, t |-> t, env |-> env],
          done |-> FALSE, out |-> NoTransfer] :
            a \in RelayAuths, sg \in RelaySignatures, t \in 1..MaxTime,
            env \in RelayEnvs }
       \cup
       { [fn |-> "parse_signature", args |-> [signature |-> sg],
          done |-> FALSE, out |-> ParseSignature(<< >>)] :
            sg \in RelaySignatures }

\* relayer.py:74-227: the call answers
RelayCall ==
  /\ call.fn = "execute_transfer"
  /\ ~call.done
  /\ call' = [call EXCEPT
                !.done = TRUE,
                !.out = ExecuteTransfer(call.args.authorization,
                                        call.args.signature,
                                        call.args.expected_recipient,
                                        call.args.expected_amount,
                                        call.args.t, << >>, {},
                                        call.args.env)]
  /\ UNCHANGED << purchases, domains, now, txs, used, reqs >>

\* relayer.py:57-72: the call answers
ParseCall ==
  /\ call.fn = "parse_signature"
  /\ ~call.done
  /\ call' = [call EXCEPT !.done = TRUE,
                          !.out = ParseSignature(call.args.signature)]
  /\ UNCHANGED << purchases, domains, now, txs, used, reqs >>

NextRelay == RelayCall \/ ParseCall

SpecRelay == InitRelay /\ [][NextRelay]_vars

-----------------------------------------------------------------------------
(* The claims *)

InFlight(r) == reqs[r].pc \notin {"idle", "done"}

Settles == {"relayer", "verifier", "registrar"}

\* the authorization in a request's header
AuthOf(r) == HeaderOf(reqs[r].hdr).auth

\* the receipt of tx_hash shows a Transfer of the token from `sender` to the
\* treasury
SettledFrom(tx_hash, sender) ==
  LET receipt == GetReceipt(tx_hash, txs)
  IN  /\ receipt.found
      /\ receipt.status = 1
      /\ \E i \in 1..Len(receipt.logs) :
            /\ receipt.logs[i].address = USDC_CONTRACT
            /\ receipt.logs[i].topic0 = TRANSFER_TOPIC
            /\ Lower(receipt.logs[i].to) = Lower(TREASURY_ADDRESS)
            /\ Lower(receipt.logs[i].from) = Lower(sender)

\* C1: of the x402_payment requests with proof that are in flight for one
\* purchase, at most one is past the write of `processing` and has called
\* the relayer, the verifier or the registrar.
C1_OnePastTheGate ==
  \A p \in PurchaseIds :
    Cardinality({ r \in Requests :
                    /\ reqs[r].kind = "x402"
                    /\ reqs[r].pid = p
                    /\ InFlight(r)
                    /\ "gate" \in reqs[r].calls
                    /\ reqs[r].calls \cap Settles # {} }) <= 1

\* C2: the registrar is called for a purchase, and the purchase is
\* `completed`, only when some request has had a settlement for that purchase
\* verified by the verifier or the relayer.
C2_VerifiedBeforeRegistration ==
  \A p \in PurchaseIds :
    (\/ purchases[p].status = "completed"
     \/ \E r \in Requests : reqs[r].pid = p /\ "registrar" \in reqs[r].calls)
    => \E q \in Requests : reqs[q].pid = p /\ reqs[q].result.verified

\* C3: once expires_at has passed, no step takes the purchase into
\* `processing`, and no x402_payment request calls the relayer or the
\* registrar for it.
C3_ExpiredNeverProcessing ==
  [][\A p \in PurchaseIds :
       (purchases[p].status # "none" /\ now > purchases[p].expires_at)
       => /\ purchases'[p].status = "processing"
               => purchases[p].status = "processing"
          /\ \A r \in Requests :
               (reqs'[r].kind = "x402" /\ reqs'[r].pid = p)
               => (reqs'[r].calls \ reqs[r].calls) \cap {"relayer", "registrar"} = {}
    ]_vars

\* C4: db.create_domain is called at most once for a purchase.
C4_GrantAtMostOnce ==
  \A p \in PurchaseIds :
    Cardinality({ r \in Requests :
                    reqs[r].pid = p /\ "create_domain" \in reqs[r].calls }) <= 1

\* C5: a purchase that is `completed` stays `completed`, and a request that
\* arrives for it runs neither the verifier nor the relayer nor the registrar.
C5_CompletedIsTerminal ==
  [][\A p \in PurchaseIds :
       purchases[p].status = "completed"
       => /\ purchases'[p].status = "completed"
          /\ \A r \in Requests :
               (reqs[r].pc = "idle" /\ reqs'[r].pid = p)
               => reqs'[r].calls \cap Settles = {}
    ]_vars

\* C6: a purchase's payer, once set, is the sender of a settlement that a
\* request for this purchase had verified, and the chain shows that sender's
\* Transfer to the treasury in the settlement's transaction.
C6_PayerIsVerifiedSender ==
  \A p \in PurchaseIds :
    purchases[p].payer # ""
    => \E r \in Requests :
          /\ reqs[r].pid = p
          /\ reqs[r].result.verified
          /\ Lower(reqs[r].result.sender) = Lower(purchases[p].payer)
          /\ SettledFrom(reqs[r].result.tx_hash, purchases[p].payer)

\* the tx_paid header declares the payer 0xMaLl; the Transfer of 0xh1 came
\* from 0xalic
C6_Witness ==
  \E p \in PurchaseIds, r \in Requests :
    /\ reqs[r].pid = p
    /\ reqs[r].hdr = "tx_paid"
    /\ reqs[r].result.verified
    /\ DecodeHeader(HeaderOf(reqs[r].hdr)).payer = "0xMaLl"
    /\ purchases[p].payer = "0xalic"

\* C7: no two purchases are `completed` on the same settled transaction
\* hash.
C7_HashCompletesOnePurchase ==
  \A p, q \in PurchaseIds :
    (/\ p # q
     /\ purchases[p].status = "completed"
     /\ purchases[q].status = "completed"
     /\ purchases[p].tx_hash # "")
    => purchases[p].tx_hash # purchases[q].tx_hash

\* the answers execute_transfer gives before it asks the chain anything
BeforeChain ==
  { "Recipient mismatch", "Amount too low", "Authorization not yet valid",
    "Authorization expired" }

\* C8: an authorization relayed after its valid_before is refused, with no
\* transaction hash, by a check that comes before any call to the chain; and
\* no transaction was ever sent after its authorization's valid_before.
C8_ExpiredNeverSubmitted ==
  /\ \A i \in 1..Len(txs) : txs[i].sent_at <= txs[i].auth.validBefore
  /\ \A r \in Requests :
       ("relayer" \in reqs[r].calls /\ reqs[r].late)
       => /\ ~reqs[r].result.verified
          /\ reqs[r].result.tx_hash = ""
          /\ reqs[r].result.error \in BeforeChain

C8_Witness ==
  \E r \in Requests :
    /\ "relayer" \in reqs[r].calls
    /\ reqs[r].late
    /\ reqs[r].hdr = "auth_short"
    /\ reqs[r].result.error = "Authorization expired"

\* the transactions of the relayer that carried out authorization a
SettledFor(a, chain) ==
  { i \in 1..Len(chain) : chain[i].auth = a /\ chain[i].state = "ok" }

\* C9: an authorization is carried out by at most one transaction; a relayer
\* answer `verified` is the answer for that one transaction; and a request
\* that relays an authorization whose nonce the contract has consumed sends
\* nothing and is refused, at gas estimation unless an earlier check of the
\* relayer refused it.
C9_NoSecondTransfer ==
  [][/\ \A r \in Requests :
          Cardinality(SettledFor(AuthOf(r), txs)') <= 1
     /\ \A r \in Requests :
          (reqs'[r].via = "relayer" /\ reqs'[r].result.verified)
          => \E i \in 1..Len(txs') :
                /\ RelayHashes[i] = reqs'[r].result.tx_hash
                /\ txs'[i].state = "ok"
                /\ txs'[i].auth = AuthOf(r)'
     /\ \A r \in Requests :
          (/\ "relayer" \in reqs'[r].calls \ reqs[r].calls
           /\ AuthOf(r)'.nonce \in used)
          => /\ txs' = txs
             /\ ~reqs'[r].result.verified
             /\ reqs'[r].result.error \in
                  BeforeChain \cup { "Relayer has insufficient gas",
                                     "Transaction would fail" }
    ]_vars

\* two requests relay the same authorization; one is settled, the other
\* fails at gas estimation
C9_Witness ==
  \E r, q \in Requests :
    /\ r # q
    /\ reqs[r].hdr = "auth_long"
    /\ reqs[q].hdr = "auth_long"
    /\ reqs[r].via = "relayer"
    /\ reqs[r].result.verified
    /\ reqs[q].via = "relayer"
    /\ reqs[q].result.error = "Transaction would fail"
    /\ Cardinality(SettledFor(AuthLong, txs)) = 1

\* C10: when x402_payment answers that the registration failed after the
\* relayer had the transfer verified, the purchase is `registration_failed`,
\* holds a payer and a tx_hash (this request's, when no other request works
\* on the purchase), and the request created no grant.
C10_RegistrationFailedKeepsPayment ==
  [][\A r \in Requests :
       (/\ reqs[r].pc = "x_w_registration_failed"
        /\ reqs[r].via = "relayer"
        /\ reqs'[r].pc = "done")
       => LET p == reqs[r].pid
          IN  /\ reqs[r].result.verified
              /\ purchases'[p].status = "registration_failed"
              /\ purchases'[p].payer # ""
              /\ purchases'[p].tx_hash # ""
              /\ (\A q \in Requests : q # r => reqs[q].pid # p)
                   => /\ purchases'[p].payer = reqs[r].result.sender
                      /\ purchases'[p].tx_hash = reqs[r].result.tx_hash
              /\ "create_domain" \notin reqs'[r].calls
              /\ domains' = domains
    ]_vars

C10_Witness ==
  \E r \in Requests :
    /\ reqs[r].kind = "x402"
    /\ reqs[r].via = "relayer"
    /\ reqs[r].result.verified
    /\ reqs[r].resp = "500 registration failed"
    /\ purchases[reqs[r].pid].status = "registration_failed"
    /\ purchases[reqs[r].pid].payer = "0xAlIc"
    /\ purchases[reqs[r].pid].tx_hash = reqs[r].result.tx_hash
    /\ domains[purchases[reqs[r].pid].domain] = NoDomain

\* verify_payment has answered for a receipt of a successful transaction
Verified(rc) ==
  /\ call.fn = "verify_payment"
  /\ call.done
  /\ call.args.receipt = rc
  /\ rc.found
  /\ rc.status = 1

\* the log is a Transfer of the token
TokenTransfer(log) ==
  /\ Lower(log.address) = Lower(USDC_CONTRACT)
  /\ log.topic0 = TRANSFER_TOPIC

\* the log pays the recipient
Pays(log, recipient) ==
  TokenTransfer(log) /\ Lower(log.to) = Lower(recipient)

\* cents in micro-units
Micro(cents) == cents * 10000

\* C11: when a log of a successful receipt is a Transfer of the token to the
\* expected recipient of at least the expected amount, the answer is
\* verified, with the sender of the first such log.
C11_QualifyingLogVerifies ==
  \A rc \in Receipts :
    Verified(rc) =>
      \A i \in 1..Len(rc.logs) :
        (/\ Pays(rc.logs[i], call.args.expected_recipient)
         /\ rc.logs[i].amount_raw >= Micro(call.args.expected_amount)
         /\ \A j \in 1..(i - 1) :
              ~(/\ Pays(rc.logs[j], call.args.expected_recipient)
                /\ rc.logs[j].amount_raw >= Micro(call.args.expected_amount)))
        => /\ call.out.verified
           /\ call.out.sender = rc.logs[i].from

\* C12, as claimed: when a Transfer log of the receipt goes to another
\* recipient or is for less than the expected amount, the answer is not
\* verified.
C12_AnyBadLogRejects ==
  \A rc \in Receipts :
    Verified(rc) =>
      \A i \in 1..Len(rc.logs) :
        (/\ TokenTransfer(rc.logs[i])
         /\ \/ ~Pays(rc.logs[i], call.args.expected_recipient)
            \/ rc.logs[i].amount_raw < Micro(call.args.expected_amount))
        => ~call.out.verified /\ call.out.error # ""

\* C12, as amended: when the first Transfer of the token to the expected
\* recipient is for less than the expected amount, the answer is not
\* verified and reports that log's shortfall, whatever follows it; when no
\* log pays the expected recipient, the answer is not verified, no matching
\* transfer.
C12_FirstShortLogRejects ==
  \A rc \in Receipts :
    Verified(rc) =>
      /\ \A i \in 1..Len(rc.logs) :
           (/\ Pays(rc.logs[i], call.args.expected_recipient)
            /\ rc.logs[i].amount_raw < Micro(call.args.expected_amount)
            /\ \A j \in 1..(i - 1) :
                 ~Pays(rc.logs[j], call.args.expected_recipient))
           => /\ ~call.out.verified
              /\ call.out.error = "Amount less than expected"
              /\ call.out.amount = rc.logs[i].amount_raw
              /\ call.out.sender = rc.logs[i].from
      /\ (\A i \in 1..Len(rc.logs) :
            ~Pays(rc.logs[i], call.args.expected_recipient))
         => /\ ~call.out.verified
            /\ call.out.error = "No matching USDC transfer found"

\* a short Transfer to the treasury, then one of the price
C12_Witness ==
  /\ call.fn = "verify_payment"
  /\ call.done
  /\ call.args.receipt =
       [found |-> TRUE, raised |-> "", status |-> 1,
        logs |-> << TransferLog("0xalic", "0xtrea", 10000000),
                    TransferLog("0xalic", "0xtrea", 12990000) >>]
  /\ ~call.out.verified
  /\ call.out.error = "Amount less than expected"

\* the requests that have created a grant for purchase p
Granted(p) ==
  { r \in Requests : reqs[r].pid = p /\ "create_domain" \in reqs[r].calls }

\* no other request than r works or has worked on purchase p
Alone(r, p) == \A q \in Requests : q # r => reqs[q].pid # p

\* C13: an x402_payment request whose proof names transaction 0xh1 (a
\* Transfer of exactly the price to the treasury) has the payment verified;
\* once the registrar has answered SUCCESS it writes `completed`, then
\* creates the grant for the Transfer's sender and answers success; with no
\* other request on the purchase, the purchase is `completed` with one grant
\* created at the answer.
C13_ExactPaymentCompletes ==
  [][\A r \in Requests :
       LET p == reqs[r].pid
       IN  /\ (reqs'[r].hdr = "tx_paid" /\ "verifier" \in reqs'[r].calls)
                => /\ reqs'[r].result.verified
                   /\ reqs'[r].result.sender = "0xalic"
           /\ (/\ reqs[r].hdr = "tx_paid"
               /\ reqs[r].pc = "x_w_completed"
               /\ reqs'[r] # reqs[r])
                => /\ purchases'[p].status = "completed"
                   /\ reqs'[r].pc = "x_create_domain"
           /\ (/\ reqs[r].hdr = "tx_paid"
               /\ reqs[r].pc = "x_create_domain"
               /\ reqs'[r] # reqs[r])
                => /\ reqs'[r].resp = "200 registered"
                   /\ domains'[purchases[p].domain].owner_wallet = "0xalic"
                   /\ Alone(r, p)
                        => /\ purchases'[p].status = "completed"
                           /\ purchases'[p].payer = "0xalic"
                           /\ purchases'[p].tx_hash = "0xh1"
                           /\ Granted(p)' = {r}
    ]_vars

C13_Witness ==
  \E r \in Requests :
    /\ reqs[r].kind = "x402"
    /\ reqs[r].hdr = "tx_paid"
    /\ reqs[r].resp = "200 registered"
    /\ Alone(r, reqs[r].pid)
    /\ purchases[reqs[r].pid].amount = 1299
    /\ purchases[reqs[r].pid].status = "completed"
    /\ domains[purchases[reqs[r].pid].domain].owner_wallet = "0xalic"
    /\ Granted(reqs[r].pid) = {r}

C15_GrantKeepsItsOwner ==
  [][\A r \in Requests, d \in DomainNames :
       (/\ domains[d] # NoDomain
        /\ "create_domain" \in reqs'[r].calls \ reqs[r].calls
        /\ Alone(r, reqs[r].pid))
       => Lower(domains'[d].owner_wallet) = Lower(domains[d].owner_wallet)
    ]_vars

\* the edges of the purchase state machine
Edges ==
  { << "pending", "awaiting_payment" >>,
    << "pending", "processing" >>,
    << "awaiting_payment", "processing" >>,
    << "processing", "completed" >>,
    << "processing", "payment_failed" >>,
    << "processing", "registration_failed" >>,
    << "processing", "error" >>,
    << "processing", "awaiting_payment" >>,
    << "payment_failed", "awaiting_payment" >>,
    << "pending", "expired" >>,
    << "awaiting_payment", "expired" >> }

\* C16: every change of a purchase's status follows an edge of the state
\* machine.
C16_StatusFollowsEdges ==
  [][\A p \in PurchaseIds :
       (purchases[p].status # "none"
        /\ purchases'[p].status # purchases[p].status)
       => << purchases[p].status, purchases'[p].status >> \in Edges
    ]_vars

\* C17: a payment request that arrives for a purchase in `payment_failed`
\* whose offer has not expired is not refused for the purchase's status.
C17_PaymentFailedAcceptsRetry ==
  [][\A r \in Requests :
       (/\ reqs[r].pc = "idle"
        /\ reqs'[r].kind = "x402"
        /\ purchases[reqs'[r].pid].status = "payment_failed"
        /\ now <= purchases[reqs'[r].pid].expires_at)
       => reqs'[r].resp # "400 status"
    ]_vars

\* C18: when the relayer has not established the settlement, the request
\* leaves the purchase in `payment_failed`.
C18_RelayFailureIsPaymentFailed ==
  [][\A r \in Requests :
       (/\ reqs[r].pc = "x_w_relay_failed"
        /\ reqs'[r].pc = "done")
       => purchases'[reqs[r].pid].status = "payment_failed"
    ]_vars

\* C19: a purchase in `registration_failed` or `error` keeps its status,
\* payer and tx_hash, and a request that arrives for it runs neither the
\* verifier nor the relayer nor the registrar.
C19_PostSettlementFailureStays ==
  [][\A p \in PurchaseIds :
       purchases[p].status \in {"registration_failed", "error"}
       => /\ purchases'[p].status = purchases[p].status
          /\ purchases'[p].payer = purchases[p].payer
          /\ purchases'[p].tx_hash = purchases[p].tx_hash
          /\ \A r \in Requests :
               (reqs[r].pc = "idle" /\ reqs'[r].pid = p)
               => reqs'[r].calls \cap Settles = {}
    ]_vars

\* C20: for an `expired` purchase no request that has answered had a
\* settlement verified, and no transaction that the relayer sent for such a
\* request has carried out its transfer.
C20_ExpiredMeansNoFundsMoved ==
  \A p \in PurchaseIds :
    purchases[p].status = "expired"
    => \A r \in Requests :
         (reqs[r].pid = p /\ reqs[r].pc = "done")
         => /\ ~reqs[r].result.verified
            /\ (reqs[r].via = "relayer" /\ reqs[r].result.tx_hash # "")
                 => GetReceipt(reqs[r].result.tx_hash, txs).status # 1

\* C21: a purchase in `completed` has had its settlement verified by a
\* request and its domain name has a grant, in every state, the states
\* between two database calls of a handler included.
C21_CompletedHasGrant ==
  \A p \in PurchaseIds :
    purchases[p].status = "completed"
    => /\ \E r \in Requests : reqs[r].pid = p /\ reqs[r].result.verified
       /\ domains[purchases[p].domain] # NoDomain

\* the header has one of the three shapes of evidence: an envelope with an
\* authorization object and a signature, or a bare JSON object or an
\* attribute list with a transaction hash
Recognized(h) ==
  \/ /\ h.shape = "b64"
     /\ h.auth_type = "dict"
     /\ h.auth # NoAuth
     /\ h.sig # NoSig
  \/ h.shape \in {"json", "legacy"} /\ h.txh # ""
  \/ h.shape = "b64" /\ (h.top_txh # "" \/ h.txn \notin {"", "nodict"})

\* C22: an x402_payment request whose header has none of the recognized
\* shapes calls neither relayer, verifier nor registrar and creates no
\* grant; it answers the client error for a missing proof, and with no other
\* request on the purchase it leaves the purchase in `awaiting_payment`.
C22_UnrecognizedGoesBack ==
  \A r \in Requests :
    (/\ reqs[r].kind = "x402"
     /\ reqs[r].hdr # ""
     /\ ~Recognized(HeaderOf(reqs[r].hdr)))
    => /\ reqs[r].calls \subseteq {"gate"}
       /\ reqs[r].pc = "done" /\ reqs[r].calls = {"gate"}
            => /\ reqs[r].resp = "400 missing proof"
               /\ Alone(r, reqs[r].pid)
                    => purchases[reqs[r].pid].status = "awaiting_payment"

\* C23: a request without proof that has answered the challenge called
\* neither verifier, relayer nor registrar; the challenge asks for the
\* purchase's stored amount in millionths and names the treasury as
\* recipient, and the purchase is in `awaiting_payment`.
C23_ChallengeAsksStoredAmount ==
  \A r \in Requests :
    reqs[r].resp = "402 payment required"
    => /\ reqs[r].calls = {}
       /\ reqs[r].challenge.maxAmountRequired
            = purchases[reqs[r].pid].amount * 10000
       /\ reqs[r].challenge.payTo = TREASURY_ADDRESS
       /\ purchases[reqs[r].pid].status = "awaiting_payment"

\* C24: once a purchase exists, no step changes its amount or its domain.
C24_AmountAndDomainAreFixed ==
  [][\A p \in PurchaseIds :
       purchases[p].status # "none"
       => /\ purchases'[p].amount = purchases[p].amount
          /\ purchases'[p].domain = purchases[p].domain
    ]_vars

\* a purchase that went through the writes of a whole payment still has the
\* amount and the domain it was created with
C24_Witness ==
  \E p \in PurchaseIds :
    /\ purchases[p].status = "completed"
    /\ purchases[p].payer # ""
    /\ purchases[p].tx_hash # ""
    /\ purchases[p].amount = TotalPrice("a.com", 1)
    /\ purchases[p].domain = "a.com"

\* C25: every transaction the relayer sent has its hash in the answer of the
\* execute_transfer that sent it, and the answer is one of three: verified,
\* with the authorization's `from` as sender, only when the transaction
\* succeeded; "Transaction reverted" only when it reverted; or the
\* confirmation failure, an error other than the revert's.
C25_ThreeOutcomesAfterSend ==
  \A i \in 1..Len(txs) :
    \E r \in Requests :
      LET res == reqs[r].result
      IN  /\ reqs[r].via = "relayer"
          /\ res.tx_hash = RelayHashes[i]
          /\ res.verified
               => /\ txs[i].state = "ok"
                  /\ Lower(res.sender) = Lower(txs[i].auth.from)
                  /\ res.error = ""
          /\ ~res.verified
               => res.error \in {"Transaction reverted",
                                 "Transaction sent but confirmation failed"}
          /\ res.error = "Transaction reverted" => txs[i].state = "reverted"

\* one transaction was answered as reverted and another as unconfirmed,
\* each with its hash
C25_Witness ==
  \E r, q \in Requests :
    /\ reqs[r].result.error = "Transaction reverted"
    /\ reqs[r].result.tx_hash \in { RelayHashes[i] : i \in 1..Len(txs) }
    /\ reqs[q].result.error = "Transaction sent but confirmation failed"
    /\ reqs[q].result.tx_hash \in { RelayHashes[i] : i \in 1..Len(txs) }
    /\ reqs[q].result.tx_hash # reqs[r].result.tx_hash

\* C26: when a request whose relayer sent a transaction has answered, and no
\* other request worked on the purchase, the purchase record holds the
\* transaction's hash, whatever became of the transaction.
C26_BroadcastHashIsStored ==
  \A r \in Requests :
    (/\ reqs[r].pc = "done"
     /\ reqs[r].via = "relayer"
     /\ reqs[r].result.tx_hash # ""
     /\ Alone(r, reqs[r].pid))
    => purchases[reqs[r].pid].tx_hash = reqs[r].result.tx_hash

\* request q sent, for r's purchase and with r's authorization, a transaction
\* whose confirmation timed out and that has since carried out its transfer
MinedAfterTimeout(r, q) ==
  /\ q # r
  /\ reqs[q].pc = "done"
  /\ reqs[q].pid = reqs[r].pid
  /\ reqs[q].result.error = "Transaction sent but confirmation failed"
  /\ \E i \in 1..Len(txs) :
        /\ reqs[q].result.tx_hash = RelayHashes[i]
        /\ txs[i].auth = AuthOf(r)
        /\ txs[i].state = "ok"

\* C27: when the transfer relayed for a purchase was mined after its
\* confirmation timed out, the retry with the same authorization is not
\* rejected back to `awaiting_payment`: the request finds the settlement and
\* goes on to the registration, which ends in `completed`,
\* `registration_failed` or `error`.
C27_LateSettlementIsFound ==
  [][\A r \in Requests :
       (/\ reqs[r].pc = "x_w_processing"
        /\ reqs'[r].via = "relayer"
        /\ \E q \in Requests : MinedAfterTimeout(r, q))
       => /\ reqs'[r].pc = "x_w_payer"
          /\ reqs'[r].result.verified
    ]_vars

\* C28: a call of the relayer whose gas estimate fails answers not verified
\* with the reason "Transaction would fail" and no hash, and sends nothing:
\* the account's transactions and the consumed authorizations are as before.
\* The estimate fails for every authorization whose nonce is consumed.
C28_FailedEstimateSendsNothing ==
  [][\A r \in Requests :
       (reqs[r].pc = "x_w_processing" /\ reqs'[r].via = "relayer")
       => /\ reqs'[r].result.error = "Transaction would fail"
               => /\ ~reqs'[r].result.verified
                  /\ reqs'[r].result.tx_hash = ""
                  /\ reqs'[r].pc = "x_w_relay_failed"
                  /\ txs' = txs
                  /\ used' = used
          /\ AuthOf(r).nonce \in used
               => /\ ~reqs'[r].result.verified
                  /\ txs' = txs
    ]_vars

\* a retry of a consumed authorization was answered with the estimate's
\* failure while the first transaction is the only one sent
C28_Witness ==
  \E r \in Requests :
    /\ reqs[r].result.error = "Transaction would fail"
    /\ AuthOf(r).nonce \in used
    /\ Len(txs) = 1

\* C29: no two transactions of the relayer's account that are pending at the
\* same time, sent for two authorizations, carry the same account nonce.
C29_PendingNoncesDiffer ==
  \A i, j \in 1..Len(txs) :
    (/\ txs[i].auth # txs[j].auth
     /\ txs[i].state = "pending"
     /\ txs[j].state = "pending")
    => txs[i].acct # txs[j].acct

\* C30: while one request is in the relayer's calls to the node, a request
\* for another purchase that waits to write its challenge can take that
\* step.
C30_OtherPurchasesProceed ==
  \A r, q \in Requests :
    (/\ reqs[r].pc = "x_in_relayer"
     /\ reqs[q].pc = "x_w_challenge"
     /\ reqs[q].pid # reqs[r].pid)
    => ENABLED (~LoopBlocked /\ X402WriteChallenge(q))

\* C31: when the receipt is absent (None, not found, or the read raised) or
\* the transaction's status is not success, verify_payment answers not
\* verified, with an error and no sender.
C31_VerifierFailsClosed ==
  (call.fn = "verify_payment" /\ call.done)
  => LET rc == call.args.receipt
     IN  (~rc.found \/ rc.raised # "" \/ rc.status # 1)
         => /\ ~call.out.verified
            /\ call.out.error \in
                 { "Transaction not found", "Transaction not found on chain",
                   "Transaction failed", "Verification error" }
            /\ call.out.sender = ""

\* a failed transaction whose receipt holds a Transfer of the price to the
\* treasury was answered as failed
C31_Witness ==
  /\ call.fn = "verify_payment"
  /\ call.done
  /\ call.args.receipt.found
  /\ call.args.receipt.status = 0
  /\ \E i \in 1..Len(call.args.receipt.logs) :
        /\ Pays(call.args.receipt.logs[i], call.args.expected_recipient)
        /\ call.args.receipt.logs[i].amount_raw
             >= Micro(call.args.expected_amount)
  /\ ~call.out.verified
  /\ call.out.error = "Transaction failed"


\* C32: execute_transfer answers with the error of the first check that
\* fails, in the order recipient, amount, validity window, relayer gas
\* balance, signature format, gas estimation.
C32_FirstFailingCheckAnswers ==
  (call.fn = "execute_transfer" /\ call.done) =>
    LET a == call.args.authorization
        t == call.args.t
        env == call.args.env
        error == call.out.res.error
        recipient == Lower(a.to) = Lower(call.args.expected_recipient)
        amount == a.value >= 12990000
        window == a.validAfter <= t /\ t <= a.validBefore
        format == Len(call.args.signature) = 65
    IN  /\ ~recipient => error = "Recipient mismatch"
        /\ recipient /\ ~amount => error = "Amount too low"
        /\ recipient /\ amount /\ ~window =>
              error \in {"Authorization not yet valid", "Authorization expired"}
        /\ recipient /\ amount /\ window /\ ~env.balance =>
              error = "Relayer has insufficient gas"
        /\ recipient /\ amount /\ window /\ env.balance /\ ~format =>
              error = "Execution failed"
        /\ recipient /\ amount /\ window /\ env.balance /\ format /\ ~env.est =>
              error = "Transaction would fail"

\* a wrong recipient with an expired window is answered as a recipient mismatch
C32_Witness ==
  /\ call.fn = "execute_transfer"
  /\ call.done
  /\ call.args.authorization.to = "0xothe"
  /\ call.args.t > call.args.authorization.validBefore
  /\ call.out.res.error = "Recipient mismatch"

\* C33: the relayer's window check passes exactly when
\* valid_after <= now <= valid_before, both bounds included; a time before
\* valid_after is answered "not yet valid" and a time after valid_before
\* "expired".
C33_WindowBoundsInclusive ==
  (/\ call.fn = "execute_transfer"
   /\ call.done
   /\ Lower(call.args.authorization.to) = Lower(call.args.expected_recipient)
   /\ call.args.authorization.value >= 12990000) =>
    LET a == call.args.authorization
        t == call.args.t
        error == call.out.res.error
    IN  /\ error = "Authorization not yet valid" <=> t < a.validAfter
        /\ error = "Authorization expired" <=>
              (t >= a.validAfter /\ t > a.validBefore)
        /\ (a.validAfter <= t /\ t <= a.validBefore) <=>
              error \notin {"Authorization not yet valid",
                            "Authorization expired"}

\* a call at the very second that is both valid_after and valid_before
\* passes the window check
C33_Witness ==
  /\ call.fn = "execute_transfer"
  /\ call.done
  /\ call.args.authorization.to = "0xtrea"
  /\ call.args.authorization.value = 12990000
  /\ call.args.t = call.args.authorization.validAfter
  /\ call.args.t = call.args.authorization.validBefore
  /\ call.args.env.balance
  /\ call.out.res.error \notin {"Authorization not yet valid",
                                "Authorization expired"}

\* C34: parse_signature takes only 65 bytes, r the first 32, s the next 32,
\* v the last, 0 and 1 made 27 and 28 and 27 and 28 kept; with any other
\* length it fails, and execute_transfer then answers not verified and
\* sends nothing.
C34_SignatureOf65Bytes ==
  /\ (call.fn = "parse_signature" /\ call.done) =>
        LET sig == call.args.signature
        IN  /\ call.out.ok <=> Len(sig) = 65
            /\ call.out.ok =>
                  /\ call.out.r = [i \in 1..32 |-> sig[i]]
                  /\ call.out.s = [i \in 1..32 |-> sig[32 + i]]
                  /\ sig[65] \in {0, 1} => call.out.v = sig[65] + 27
                  /\ sig[65] \in {27, 28} => call.out.v = sig[65]
  /\ (/\ call.fn = "execute_transfer"
      /\ call.done
      /\ Len(call.args.signature) # 65) =>
        /\ ~call.out.res.verified
        /\ call.out.res.tx_hash = ""
        /\ call.out.txs = << >>

\* a signature with v = 1 is parsed to v = 28
C34_Witness ==
  /\ call.fn = "parse_signature"
  /\ call.done
  /\ Len(call.args.signature) = 65
  /\ call.args.signature[65] = 1
  /\ call.out.v = 28

\* a signature of 64 bytes reaches parse_signature and nothing is sent
C34_WitnessShort ==
  /\ call.fn = "execute_transfer"
  /\ call.done
  /\ Len(call.args.signature) = 64
  /\ call.out.res.error = "Execution failed"

\* C35: when the verifier rejects an underpayment, its error carries the
\* shortfall, the expected amount less the settled amount.
C35_ErrorCarriesShortfall ==
  (/\ call.fn = "verify_payment"
   /\ call.done
   /\ call.out.error = "Amount less than expected") =>
    (call.args.expected_amount * 10000 - call.out.amount) \in call.out.mentions

C37_NoneLeftProcessing ==
  \A p \in PurchaseIds :
    purchases[p].status = "processing" =>
      \E r \in Requests :
        /\ InFlight(r)
        /\ reqs[r].kind = "x402"
        /\ reqs[r].pid = p
        /\ reqs[r].hdr # ""

\* the hash a base64 envelope's payload carries directly
DirectHash(h) ==
  IF h.shape # "b64" THEN ""
  ELSE IF h.txh # "" THEN h.txh
  ELSE IF h.txn # "nodict" THEN h.txn ELSE ""

\* C38: when the payload of a base64 envelope carries a transaction hash,
\* the submission is verified through the verifier with that hash and the
\* relayer is not called, whatever authorization the payload also carries.
C38_DirectHashFirst ==
  \A r \in Requests :
    (/\ reqs[r].kind = "x402"
     /\ "gate" \in reqs[r].calls
     /\ DirectHash(HeaderOf(reqs[r].hdr)) # "") =>
      /\ "relayer" \notin reqs[r].calls
      /\ "verifier" \in reqs[r].calls
      /\ reqs[r].tx_hash = DirectHash(HeaderOf(reqs[r].hdr))

\* C39: a request that creates a grant from a purchase gives it, as owner,
\* a non-empty wallet that is the sender of the verified settlement the
\* purchase records, whichever endpoint the request came through.
C39_GrantOwnerIsSettlementPayer ==
  [][\A d \in DOMAIN domains, r \in Requests :
       (domains'[d] # domains[d] /\ reqs'[r] # reqs[r]) =>
         LET owner == domains'[d].owner_wallet
         IN  /\ owner # ""
             /\ SettledFrom(purchases[reqs[r].pid].tx_hash, owner)]_vars

=============================================================================
